---- MODULE Spec2Model ----
(***************************************************************************)
(* Model of the streaming chat handler of src/src/pages/Chat.tsx           *)
(* (handleSend): the fetch, the reader.read() loop, the line extraction    *)
(* loop, the JSON decode of a data line and the reconciliation of deltas   *)
(* into the messages transcript.                                           *)
(*                                                                         *)
(* Text is a sequence of tokens.  A token stands for a run of characters   *)
(* that the handler only ever inspects as a whole:                         *)
(*   "data:"   the five characters d a t a :                               *)
(*   " "       one space                                                   *)
(*   ":"       one colon                                                   *)
(*   "LF" "CR" the characters \n and \r                                    *)
(*   "[DONE]"  the six characters of the sentinel                          *)
(*   "{"       {"choices":[{"delta":{"content":"   (opens the content)     *)
(*   "}"       "}}]}                               (closes the content)    *)
(*   "role"    {"choices":[{"delta":{"role":"assistant"}}]}                *)
(*   "null"    the JSON literal null                                       *)
(*   "a" "b"   one letter                                                  *)
(* A chunk boundary may fall between any two tokens.                       *)
(***************************************************************************)
EXTENDS Integers, Sequences, FiniteSets, TLC

VARIABLES
    messages,        \* useState<Message[]>            Chat.tsx:28
    isLoading,       \* useState(false)                Chat.tsx:32
    pc,              \* position of handleSend: Idle, fetch, reading, lines, Completed, Failed
    assistantSoFar,  \* let assistantSoFar = ''        Chat.tsx:112
    textBuffer,      \* let textBuffer = ''            Chat.tsx:137
    rest,            \* bytes the response body has not delivered yet
    now,             \* Date.now(), advanced by every accepted send
    linesLeft,       \* frames the responses of this run may still carry (bounds the run)
    sendsLeft,       \* sends the run may still make (bounds the run)
    frames,          \* the frames the responses of this run are made of
    cancelled,       \* history: a cancellation was requested during this session
    resp,            \* the Response fetch resolved with (ok, status, body kind)
    reader,          \* TRUE once resp.body.getReader() was called in this session
    stream,          \* history: the whole byte stream of the current response
    sawDone,         \* history: a [DONE] line was decoded in this session
    atRead,          \* history: what the latest reader.read() joined
    tailChunks       \* history: number of chunks the unterminated tail of textBuffer came from

vars == <<messages, isLoading, pc, assistantSoFar, textBuffer, rest, now,
          linesLeft, sendsLeft, frames, cancelled, resp, reader, stream, sawDone,
          atRead, tailChunks>>

(***************************************************************************)
(* Bounds of the model: the frames all the responses of a run carry        *)
(* together, and the sends of a run.                                       *)
(***************************************************************************)
MaxLines == 2
MaxSends == 1

(***************************************************************************)
(* String helpers, as the JavaScript methods the handler calls.            *)
(***************************************************************************)
LF == "LF"
CR == "CR"

Whitespace == {" ", CR, LF}

\* String.prototype.indexOf('\n'): the 1-based position of the first LF, 0 for -1.
IndexOfNewline(s) ==
    IF \E i \in 1..Len(s) : s[i] = LF
    THEN CHOOSE i \in 1..Len(s) : s[i] = LF /\ \A j \in 1..(i - 1) : s[j] # LF
    ELSE 0

\* s.slice(k) for k tokens dropped from the front.
SliceFrom(s, k) == SubSeq(s, k + 1, Len(s))

\* s.slice(0, -1)
DropLast(s) == SubSeq(s, 1, Len(s) - 1)

EndsWith(s, t) == Len(s) > 0 /\ s[Len(s)] = t

StartsWith(s, p) == Len(s) >= Len(p) /\ SubSeq(s, 1, Len(p)) = p

RECURSIVE TrimStart(_)
TrimStart(s) ==
    IF Len(s) > 0 /\ s[1] \in Whitespace THEN TrimStart(Tail(s)) ELSE s

RECURSIVE TrimEnd(_)
TrimEnd(s) ==
    IF Len(s) > 0 /\ s[Len(s)] \in Whitespace THEN TrimEnd(DropLast(s)) ELSE s

\* String.prototype.trim()
Trim(s) == TrimEnd(TrimStart(s))

(***************************************************************************)
(* JSON.parse(jsonStr) followed by parsed.choices?.[0]?.delta?.content.    *)
(***************************************************************************)
\* Tokens that may stand inside the quoted content string.
StringTokens == {"a", "b", " ", ":", "data:", "[DONE]", "null"}

\* JSON.parse: "SyntaxError", or the parsed value: the literal null, or an
\* object whose choices[0].delta.content is `content` (<<>> when the field is
\* absent or the empty string; both are falsy).
JSONParse(jsonStr) ==
    IF jsonStr = <<"null">> THEN [tag |-> "null", content |-> <<>>]
    ELSE IF jsonStr = <<"role">> THEN [tag |-> "object", content |-> <<>>]
    ELSE IF /\ Len(jsonStr) >= 2
            /\ jsonStr[1] = "{"
            /\ jsonStr[Len(jsonStr)] = "}"
            /\ \A i \in 2..(Len(jsonStr) - 1) : jsonStr[i] \in StringTokens
    THEN [tag |-> "object", content |-> SubSeq(jsonStr, 2, Len(jsonStr) - 1)]
    ELSE [tag |-> "SyntaxError", content |-> <<>>]

\* The body of the try block up to `content`: threw is TRUE when JSON.parse
\* throws a SyntaxError or when `parsed.choices` throws a TypeError because
\* parsed is null; otherwise content is choices?.[0]?.delta?.content.
TryDecode(jsonStr) ==
    LET parsed == JSONParse(jsonStr)
    IN  IF parsed.tag = "SyntaxError" THEN [threw |-> TRUE, content |-> <<>>]
        ELSE IF parsed.tag = "null" THEN [threw |-> TRUE, content |-> <<>>]
        ELSE [threw |-> FALSE, content |-> parsed.content]

(***************************************************************************)
(* The transcript.                                                         *)
(***************************************************************************)
Welcome == [id |-> <<"1">>, role |-> "assistant", content |-> <<"welcome">>]

UserInputs == {<<"q">>}

UserId(t) == <<"", t>>
AiId(t) == <<"ai-", t>>
ErrId(t) == <<"err-", t>>

IsAiId(id) == id[1] = "ai-"

\* A reconciliation that opens a new turn for every delta.
ReconcileAlwaysAppends(prev, soFar, t) ==
    Append(prev, [id |-> AiId(t), role |-> "assistant", content |-> soFar])

\* A reconciliation that writes into the latest 'ai-' turn of the transcript,
\* wherever it is.
ReconcileMergesAcrossSessions(prev, soFar, t) ==
    LET ais == {i \in 1..Len(prev) : prev[i].role = "assistant" /\ IsAiId(prev[i].id)}
    IN  IF ais # {}
        THEN LET k == CHOOSE i \in ais : \A j \in ais : j <= i
             IN  [prev EXCEPT ![k].content = soFar]
        ELSE Append(prev, [id |-> AiId(t), role |-> "assistant", content |-> soFar])

\* setMessages(prev => ...) of a delta: replace the last turn when it is an
\* assistant turn whose id starts with 'ai-', else append a new 'ai-' turn.
Reconcile(prev, soFar, t) ==
    LET last == prev[Len(prev)]
    IN  IF Len(prev) > 0 /\ last.role = "assistant" /\ IsAiId(last.id)
        THEN [i \in 1..Len(prev) |->
                 IF i = Len(prev) THEN [prev[i] EXCEPT !.content = soFar] ELSE prev[i]]
        ELSE Append(prev, [id |-> AiId(t), role |-> "assistant", content |-> soFar])

\* The catch block: append the synthetic error turn.
ErrorTurn(msg, t) ==
    [id |-> ErrId(t), role |-> "assistant",
     content |-> <<"Sorry, I encountered an error: ">> \o msg \o <<". Please try again.">>]

(***************************************************************************)
(* The non-success branch: resp.json().catch(() => ({})) and the message   *)
(* errData.error || `Error ${resp.status}`.                                *)
(***************************************************************************)
Statuses == {"404", "500"}

\* Response bodies of a non-success response: not JSON, the JSON literal
\* null, {}, {"error":"rate limited"} and {"error":""}.
Bodies == {"notjson", "null", "object", "error", "emptyerror"}

\* resp.json(): rejects when the body is not JSON, else the parsed value.
RespJson(body) ==
    IF body = "notjson" THEN [tag |-> "reject", error |-> <<>>]
    ELSE IF body = "null" THEN [tag |-> "null", error |-> <<>>]
    ELSE IF body = "error" THEN [tag |-> "object", error |-> <<"rate limited">>]
    ELSE [tag |-> "object", error |-> <<>>]

\* The message of the Error thrown at Chat.tsx:129-130.  Reading .error of
\* null throws a TypeError, whose message reaches the catch block instead.
FailureMessage(status, body) ==
    LET r == RespJson(body)
        errData == IF r.tag = "reject" THEN [tag |-> "object", error |-> <<>>] ELSE r
    IN  IF errData.tag = "null"
        THEN <<"Cannot read properties of null (reading 'error')">>
        ELSE IF errData.error # <<>> THEN errData.error
        ELSE <<"Error ", status>>

(***************************************************************************)
(* The byte streams a response body may carry: up to MaxLines pieces.      *)
(***************************************************************************)
DataA     == <<"data:", " ", "{", "a", "}", LF>>
DataB     == <<"data:", " ", "{", "b", "}", LF>>
DataCRLF  == <<"data:", " ", "{", "a", "}", CR, LF>>
DoneLine  == <<"data:", " ", "[DONE]", LF>>
Comment   == <<":", "a", LF>>
Blank     == <<LF>>
SplitHead == <<"data:", " ", "{", "a", LF>>
SplitTail == <<"b", "}", LF>>
NullLine  == <<"data:", " ", "null", LF>>
RoleLine  == <<"data:", " ", "role", LF>>
EmptyLine == <<"data:", " ", "{", "}", LF>>
NoSpace   == <<"data:", "{", "a", "}", LF>>
Unterminated == <<"data:", " ", "{", "b", "}">>

Catalogue ==
    {DataA, DataB, DataCRLF, DoneLine, Comment, Blank, SplitHead, SplitTail,
     NullLine, RoleLine, EmptyLine, NoSpace, Unterminated}

\* The frames of the runs that follow several sessions.
SessionCatalogue == {DataA, DataB}

\* The streams made of exactly n pieces of the set fs of frames.
RECURSIVE StreamsOver(_, _)
StreamsOver(fs, n) ==
    IF n = 0 THEN {<<>>}
    ELSE {s \o p : s \in StreamsOver(fs, n - 1), p \in fs}

\* The streams made of exactly n pieces of the catalogue.
StreamsOf(n) == StreamsOver(Catalogue, n)

(***************************************************************************)
(* One iteration of the inner while loop (Chat.tsx:145-170) on a buffer    *)
(* that holds a newline.  brk is TRUE when the iteration leaves the loop   *)
(* by `break`; done is TRUE when the line was the [DONE] sentinel.         *)
(***************************************************************************)
DataPrefix == <<"data:", " ">>

\* A prefix test that lets every line through.
IsDataLineAlways(line) == TRUE

\* line.startsWith('data: ')  (Chat.tsx:150)
IsDataLine(line) == StartsWith(line, DataPrefix)

LineStep(buf, msgs, soFar, t) ==
    LET newlineIndex == IndexOfNewline(buf)
        raw    == SubSeq(buf, 1, newlineIndex - 1)
        after  == SliceFrom(buf, newlineIndex)
        line   == IF EndsWith(raw, CR) THEN DropLast(raw) ELSE raw
        skip   == [buf |-> after, msgs |-> msgs, soFar |-> soFar,
                   brk |-> FALSE, done |-> FALSE]
    IN  IF StartsWith(line, <<":">>) \/ Trim(line) = <<>> THEN skip
        ELSE IF ~IsDataLine(line) THEN skip
        ELSE LET jsonStr == Trim(SliceFrom(line, Len(DataPrefix)))
             IN  IF jsonStr = <<"[DONE]">>
                 THEN [skip EXCEPT !.brk = TRUE, !.done = TRUE]
                 ELSE LET r == TryDecode(jsonStr)
                      IN  IF r.threw
                          THEN [skip EXCEPT !.buf = line \o <<LF>> \o after,
                                            !.brk = TRUE]
                          ELSE IF r.content # <<>>
                          THEN [skip EXCEPT !.soFar = soFar \o r.content,
                                            !.msgs = Reconcile(msgs, soFar \o r.content, t)]
                          ELSE skip

\* The whole inner loop on one buffer: iterate LineStep until no newline is
\* left or an iteration breaks.
RECURSIVE Drain(_, _, _, _)
Drain(buf, msgs, soFar, t) ==
    IF IndexOfNewline(buf) = 0
    THEN [buf |-> buf, msgs |-> msgs, soFar |-> soFar]
    ELSE LET r == LineStep(buf, msgs, soFar, t)
         IN  IF r.brk THEN [buf |-> r.buf, msgs |-> r.msgs, soFar |-> r.soFar]
             ELSE Drain(r.buf, r.msgs, r.soFar, t)

(***************************************************************************)
(* History bookkeeping of the reads.                                       *)
(***************************************************************************)
NoResp == [ok |-> FALSE, status |-> "", body |-> ""]

NoRead == [tail |-> <<>>, chunk |-> <<>>, soFar |-> <<>>]

\* The bytes of textBuffer after its last newline: the unterminated tail.
RECURSIVE TailOf(_)
TailOf(s) ==
    IF IndexOfNewline(s) = 0 THEN s ELSE TailOf(SliceFrom(s, IndexOfNewline(s)))

Min(a, b) == IF a < b THEN a ELSE b

(***************************************************************************)
(* State machine.                                                          *)
(***************************************************************************)
Init ==
    /\ messages = <<Welcome>>
    /\ isLoading = FALSE
    /\ pc = "Idle"
    /\ assistantSoFar = <<>>
    /\ textBuffer = <<>>
    /\ rest = <<>>
    /\ now = 0
    /\ linesLeft = MaxLines
    /\ sendsLeft = MaxSends
    /\ frames = Catalogue
    /\ cancelled = FALSE
    /\ resp = NoResp
    /\ reader = FALSE
    /\ stream = <<>>
    /\ sawDone = FALSE
    /\ atRead = NoRead
    /\ tailChunks = 0

\* A guard that lets a send through while a session is streaming.
SendAcceptedAlways(inp, loading) == TRUE

\* The guard of handleSend (Chat.tsx:93), for a send without an attachment:
\* if ((!input.trim() && !attachedFile) || isLoading) return;
SendAccepted(inp, loading) == ~((Trim(inp) = <<>>) \/ loading)

\* Chat.tsx:92-117: the guard, the user turn, setIsLoading(true), fetch issued.
\* UserInputs holds only inputs that are non-empty after trim(): with an empty
\* input and no attachment handleSend returns at once and changes nothing.
\* sendsLeft caps the number of sends of a run.
HandleSend ==
    /\ sendsLeft > 0
    /\ sendsLeft' = sendsLeft - 1
    /\ cancelled' = FALSE
    /\ \E inp \in UserInputs :
          /\ SendAccepted(inp, isLoading)
          /\ messages' = Append(messages,
                                [id |-> UserId(now + 1), role |-> "user", content |-> inp])
    /\ now' = now + 1
    /\ isLoading' = TRUE
    /\ assistantSoFar' = <<>>
    /\ pc' = "fetch"
    /\ resp' = NoResp
    /\ reader' = FALSE
    /\ textBuffer' = <<>>
    /\ rest' = <<>>
    /\ stream' = <<>>
    /\ sawDone' = FALSE
    /\ atRead' = NoRead
    /\ tailChunks' = 0
    /\ UNCHANGED <<linesLeft, frames>>

\* A catch block whose error turn takes the place of the partial assistant turn.
FailOverwritesPartial(msg) ==
    /\ messages' = IF IsAiId(messages[Len(messages)].id)
                   THEN Append(SubSeq(messages, 1, Len(messages) - 1), ErrorTurn(msg, now))
                   ELSE Append(messages, ErrorTurn(msg, now))
    /\ isLoading' = FALSE
    /\ pc' = "Failed"
    /\ UNCHANGED <<assistantSoFar, textBuffer, rest, now, linesLeft, sendsLeft,
                   frames, cancelled, reader, stream, sawDone, atRead, tailChunks>>

\* The catch and finally blocks (Chat.tsx:172-180) for an error with message msg.
Fail(msg) ==
    /\ messages' = Append(messages, ErrorTurn(msg, now))
    /\ isLoading' = FALSE
    /\ pc' = "Failed"
    /\ UNCHANGED <<assistantSoFar, textBuffer, rest, now, linesLeft, sendsLeft,
                   frames, cancelled, reader, stream, sawDone, atRead, tailChunks>>

\* fetch() rejects (Chat.tsx:119).
FetchReject ==
    /\ pc = "fetch"
    /\ Fail(<<"Failed to fetch">>)
    /\ UNCHANGED resp

\* !resp.ok (Chat.tsx:128-131).
FetchNotOk ==
    /\ pc = "fetch"
    /\ \E status \in Statuses, body \in Bodies :
          /\ resp' = [ok |-> FALSE, status |-> status, body |-> body]
          /\ Fail(FailureMessage(status, body))

\* resp.ok without a body (Chat.tsx:133).
FetchNoBody ==
    /\ pc = "fetch"
    /\ resp' = [ok |-> TRUE, status |-> "200", body |-> ""]
    /\ Fail(<<"No response body">>)

\* resp.ok with a body: getReader(), textBuffer = '' (Chat.tsx:135-137).
FetchOk ==
    /\ pc = "fetch"
    /\ \E n \in 0..linesLeft :
          /\ linesLeft' = linesLeft - n
          /\ \E s \in StreamsOver(frames, n) : rest' = s /\ stream' = s
    /\ resp' = [ok |-> TRUE, status |-> "200", body |-> "stream"]
    /\ reader' = TRUE
    /\ textBuffer' = <<>>
    /\ pc' = "reading"
    /\ UNCHANGED <<messages, isLoading, assistantSoFar, now, sendsLeft, frames,
                   cancelled, sawDone, atRead, tailChunks>>

\* reader.read() resolves with a chunk: textBuffer += decode(value) (Chat.tsx:140-142).
ReadChunk ==
    /\ pc = "reading"
    /\ rest # <<>>
    /\ \E k \in 1..Len(rest) :
          LET chunk == SubSeq(rest, 1, k)
          IN  /\ textBuffer' = textBuffer \o chunk
              /\ rest' = SliceFrom(rest, k)
              /\ atRead' = IF /\ tailChunks = 1
                              /\ IndexOfNewline(chunk) = Len(chunk)
                           THEN [tail |-> TailOf(textBuffer), chunk |-> chunk,
                                 soFar |-> assistantSoFar]
                           ELSE NoRead
              /\ tailChunks' = IF IndexOfNewline(chunk) = 0
                               THEN Min(tailChunks + 1, 2)
                               ELSE IF TailOf(chunk) = <<>> THEN 0 ELSE 1
    /\ pc' = "lines"
    /\ UNCHANGED <<messages, isLoading, assistantSoFar, now, linesLeft, sendsLeft,
                   frames, cancelled, resp, reader, stream, sawDone>>

\* An end of stream that fails the session when bytes are left in textBuffer.
ReadDoneRejectsLeftover ==
    /\ pc = "reading"
    /\ rest = <<>>
    /\ IF textBuffer = <<>>
       THEN /\ isLoading' = FALSE
            /\ pc' = "Completed"
            /\ UNCHANGED <<messages, assistantSoFar, textBuffer, rest, now, linesLeft,
                           sendsLeft, frames, cancelled, resp, reader, stream, sawDone,
                           atRead, tailChunks>>
       ELSE /\ messages' = Append(messages, ErrorTurn(<<"Unexpected end of stream">>, now))
            /\ isLoading' = FALSE
            /\ pc' = "Failed"
            /\ UNCHANGED <<assistantSoFar, textBuffer, rest, now, linesLeft, sendsLeft,
                           frames, cancelled, resp, reader, stream, sawDone, atRead,
                           tailChunks>>

\* reader.read() resolves with done: break, then finally (Chat.tsx:141, 179).
ReadDone ==
    /\ pc = "reading"
    /\ rest = <<>>
    /\ isLoading' = FALSE
    /\ pc' = "Completed"
    /\ UNCHANGED <<messages, assistantSoFar, textBuffer, rest, now, linesLeft,
                   sendsLeft, frames, cancelled, resp, reader, stream, sawDone,
                   atRead, tailChunks>>

\* reader.read() rejects: catch, then finally (Chat.tsx:140, 172-180).
ReadError ==
    /\ pc = "reading"
    /\ Fail(<<"network error">>)
    /\ UNCHANGED resp

\* One iteration of the inner loop (Chat.tsx:145-170).
ProcessLine ==
    /\ pc = "lines"
    /\ IndexOfNewline(textBuffer) # 0
    /\ LET r == LineStep(textBuffer, messages, assistantSoFar, now)
       IN  /\ textBuffer' = r.buf
           /\ messages' = r.msgs
           /\ assistantSoFar' = r.soFar
           /\ sawDone' = (sawDone \/ r.done)
           /\ pc' = IF r.brk THEN "reading" ELSE "lines"
    /\ UNCHANGED <<isLoading, rest, now, linesLeft, sendsLeft, frames, cancelled,
                   resp, reader, stream, atRead, tailChunks>>

\* The inner loop's condition is false: back to reader.read() (Chat.tsx:145, 139).
LoopExit ==
    /\ pc = "lines"
    /\ IndexOfNewline(textBuffer) = 0
    /\ pc' = "reading"
    /\ UNCHANGED <<messages, isLoading, assistantSoFar, textBuffer, rest, now,
                   linesLeft, sendsLeft, frames, cancelled, resp, reader, stream,
                   sawDone, atRead, tailChunks>>

Next ==
    \/ HandleSend
    \/ FetchReject
    \/ FetchNotOk
    \/ FetchNoBody
    \/ FetchOk
    \/ ReadChunk
    \/ ReadDone
    \/ ReadError
    \/ ProcessLine
    \/ LoopExit

Spec == Init /\ [][Next]_vars

(***************************************************************************)
(* The run whose source delivers every chunk and then ends the stream: no  *)
(* reader.read() rejects, every pending read resolves, and the loops of    *)
(* handleSend run on (the promise of each await resolves, the synchronous  *)
(* inner loop takes its next iteration).                                   *)
(***************************************************************************)
NextDelivered ==
    \/ HandleSend
    \/ FetchReject
    \/ FetchNotOk
    \/ FetchNoBody
    \/ FetchOk
    \/ ReadChunk
    \/ ReadDone
    \/ ProcessLine
    \/ LoopExit

\* Weak fairness of ProcessLine, written out: ProcessLine is enabled exactly
\* when pc = "lines" and textBuffer holds a newline, and each of its steps
\* changes textBuffer or pc.
FairProcessLine ==
    \/ []<>(~(pc = "lines" /\ IndexOfNewline(textBuffer) # 0))
    \/ []<><<ProcessLine>>_vars

\* The frames of the delivered streams: a content frame, the sentinel, data
\* lines whose decoding fails and is never repaired, and a final line without
\* terminator.
DeliveredCatalogue == {DataA, DoneLine, SplitHead, NullLine, Unterminated}

InitDelivered ==
    /\ messages = <<Welcome>>
    /\ isLoading = FALSE
    /\ pc = "Idle"
    /\ assistantSoFar = <<>>
    /\ textBuffer = <<>>
    /\ rest = <<>>
    /\ now = 0
    /\ linesLeft = MaxLines
    /\ sendsLeft = MaxSends
    /\ frames = DeliveredCatalogue
    /\ cancelled = FALSE
    /\ resp = NoResp
    /\ reader = FALSE
    /\ stream = <<>>
    /\ sawDone = FALSE
    /\ atRead = NoRead
    /\ tailChunks = 0

SpecDelivered ==
    /\ InitDelivered
    /\ [][NextDelivered]_vars
    /\ WF_vars(ReadChunk)
    /\ WF_vars(ReadDone)
    /\ FairProcessLine
    /\ WF_vars(LoopExit)

(***************************************************************************)
(* The run with an external cancellation request.  fetch() is given no     *)
(* signal (Chat.tsx:119-126) and nothing cancels the reader (Chat.tsx:140):*)
(* a request raised while handleSend awaits reader.read() reaches no code  *)
(* of handleSend and is only recorded.                                     *)
(***************************************************************************)
CancelSignal ==
    /\ pc = "reading"
    /\ ~cancelled
    /\ cancelled' = TRUE
    /\ UNCHANGED <<messages, isLoading, pc, assistantSoFar, textBuffer, rest, now,
                   linesLeft, sendsLeft, frames, resp, reader, stream, sawDone,
                   atRead, tailChunks>>

NextCancel ==
    \/ Next
    \/ CancelSignal

SpecCancel == Init /\ [][NextCancel]_vars

(***************************************************************************)
(* The run over several sessions: handleSend is also invoked while a       *)
(* session is streaming (Enter in the input, Chat.tsx:252), and the        *)
(* responses are made of content frames.                                   *)
(***************************************************************************)
InitSessions ==
    /\ messages = <<Welcome>>
    /\ isLoading = FALSE
    /\ pc = "Idle"
    /\ assistantSoFar = <<>>
    /\ textBuffer = <<>>
    /\ rest = <<>>
    /\ now = 0
    /\ linesLeft = MaxLines
    /\ sendsLeft = MaxSends + 2
    /\ frames = SessionCatalogue
    /\ cancelled = FALSE
    /\ resp = NoResp
    /\ reader = FALSE
    /\ stream = <<>>
    /\ sawDone = FALSE
    /\ atRead = NoRead
    /\ tailChunks = 0

\* handleSend returns at its guard (Chat.tsx:93): nothing of the chat changes.
HandleSendIgnored ==
    /\ sendsLeft > 0
    /\ sendsLeft' = sendsLeft - 1
    /\ \E inp \in UserInputs : ~SendAccepted(inp, isLoading)
    /\ UNCHANGED <<messages, isLoading, pc, assistantSoFar, textBuffer, rest, now,
                   linesLeft, frames, cancelled, resp, reader, stream, sawDone,
                   atRead, tailChunks>>

NextSessions ==
    \/ Next
    \/ HandleSendIgnored

SpecSessions == InitSessions /\ [][NextSessions]_vars

(***************************************************************************)
(* Vocabulary of the properties: the frames of a stream as the protocol    *)
(* describes them, read off the bytes independently of the handler.        *)
(***************************************************************************)
HasLine(buf) == \E i \in 1..Len(buf) : buf[i] = LF

FirstLF(buf) == CHOOSE i \in 1..Len(buf) : buf[i] = LF /\ \A j \in 1..(i - 1) : buf[j] # LF

StripCR(l) == IF Len(l) > 0 /\ l[Len(l)] = CR THEN SubSeq(l, 1, Len(l) - 1) ELSE l

\* The first complete line of buf, without its terminator.
HeadLine(buf) == StripCR(SubSeq(buf, 1, FirstLF(buf) - 1))

\* buf without its first line and that line's terminator.
AfterHead(buf) == SubSeq(buf, FirstLF(buf) + 1, Len(buf))

Letters == {"a", "b"}

FrameIsData(l) == Len(l) >= 2 /\ l[1] = "data:" /\ l[2] = " "

FramePayload(l) == Trim(SubSeq(l, 3, Len(l)))

FrameIsDone(l) == FrameIsData(l) /\ FramePayload(l) = <<"[DONE]">>

\* A data frame whose JSON carries a non-empty content string.
FrameHasContent(l) ==
    /\ FrameIsData(l)
    /\ LET p == FramePayload(l)
       IN  /\ Len(p) >= 3
           /\ p[1] = "{"
           /\ p[Len(p)] = "}"
           /\ \A i \in 2..(Len(p) - 1) : p[i] \in Letters

FrameDelta(l) == LET p == FramePayload(l) IN SubSeq(p, 2, Len(p) - 1)

\* A data frame whose JSON is well formed and carries no content: the JSON
\* value null, a role-only frame, an empty-string content.
FrameNoContent(l) ==
    /\ FrameIsData(l)
    /\ FramePayload(l) \in {<<"null">>, <<"role">>, <<"{", "}">>}

\* A data frame that is not the sentinel and whose payload is not JSON.
FrameUndecodable(l) ==
    /\ FrameIsData(l)
    /\ ~FrameIsDone(l)
    /\ ~FrameHasContent(l)
    /\ ~FrameNoContent(l)

FrameIsComment(l) == Len(l) > 0 /\ l[1] = ":"

FrameIsBlank(l) == \A i \in 1..Len(l) : l[i] \in Whitespace

\* A line that is no data line at all: it does not begin with `data:`.
FrameIsOther(l) == Len(l) > 0 /\ l[1] # "data:"

\* The complete lines of a byte stream, in order.
RECURSIVE LinesOf(_)
LinesOf(s) ==
    IF ~HasLine(s) THEN <<>> ELSE <<HeadLine(s)>> \o LinesOf(AfterHead(s))

\* The concatenation of the deltas of the content frames among ls.
RECURSIVE DeltasOf(_)
DeltasOf(ls) ==
    IF ls = <<>> THEN <<>>
    ELSE (IF FrameHasContent(Head(ls)) THEN FrameDelta(Head(ls)) ELSE <<>>)
         \o DeltasOf(Tail(ls))

\* The position of the current session's user turn in the transcript.
UserIndex == CHOOSE i \in 1..Len(messages) : messages[i].id = UserId(now)

\* The turns the current session added after its user turn.
SessionTurns == SubSeq(messages, UserIndex + 1, Len(messages))

IsSuffix(x, s) == Len(x) <= Len(s) /\ SubSeq(s, Len(s) - Len(x) + 1, Len(s)) = x

(***************************************************************************)
(* Properties.                                                             *)
(***************************************************************************)

\* C1: when the line being decoded is a data line whose payload trims to
\* [DONE], the session is Completed right after that step: handleSend is not
\* awaiting another reader.read() and isLoading is false.
C1_DoneCompletesImmediately ==
    [][(pc = "lines" /\ HasLine(textBuffer) /\ FrameIsDone(HeadLine(textBuffer)))
          => (pc' = "Completed" /\ isLoading' = FALSE)]_vars

\* C2: once a [DONE] line has been decoded in a session, no later line
\* processing step of that session changes the messages transcript.
C2_TranscriptFrozenAfterDone ==
    [][(sawDone /\ pc = "lines") => messages' = messages]_vars

\* C3: chunking invariance.  Whatever the chunks the stream arrived in, the
\* transcript of a session that ended with the end of the stream is the one
\* the same stream yields when it arrives as a single chunk.
C3_ChunkingInvariance ==
    (pc = "Completed")
        => messages = Drain(stream, SubSeq(messages, 1, UserIndex), <<>>, now).msgs

\* C4: a JSON object physically split by a newline is recovered.  When the
\* line being decoded is a data line whose JSON does not decode and the next
\* raw line in textBuffer completes it to a content frame, the re-queue
\* leaves the two joined at the front of textBuffer; and a session whose stream is the two halves of
\* one content frame ends with that frame's delta in the transcript once.
C4_SplitJsonRecovered ==
    /\ [][(/\ pc = "lines"
           /\ HasLine(textBuffer)
           /\ FrameUndecodable(HeadLine(textBuffer))
           /\ HasLine(AfterHead(textBuffer))
           /\ FrameHasContent(HeadLine(textBuffer) \o HeadLine(AfterHead(textBuffer))))
             => (/\ HasLine(textBuffer')
                 /\ HeadLine(textBuffer')
                      = HeadLine(textBuffer) \o HeadLine(AfterHead(textBuffer)))]_vars
    /\ []((pc = "Completed" /\ stream = SplitHead \o SplitTail)
             => (/\ Len(SessionTurns) = 1
                 /\ SessionTurns[1].content = <<"a", "b">>))

\* C5: bounded loss.  In a session that ended with the end of a stream that
\* holds an undecodable data line (and no sentinel), the deltas of all the
\* content frames that follow the first undecodable line are in the
\* assistant content, in order, at its end.
FirstUndecodable(ls) == CHOOSE i \in 1..Len(ls) :
    FrameUndecodable(ls[i]) /\ \A j \in 1..(i - 1) : ~FrameUndecodable(ls[j])

C5_BoundedLossAfterDecodeFailure ==
    LET ls == LinesOf(stream)
    IN  (/\ pc = "Completed"
         /\ \E i \in 1..Len(ls) : FrameUndecodable(ls[i])
         /\ \A i \in 1..Len(ls) : ~FrameIsDone(ls[i]))
            => IsSuffix(DeltasOf(SubSeq(ls, FirstUndecodable(ls) + 1, Len(ls))),
                        assistantSoFar)

\* C6: a data line whose payload is well-formed JSON without content (the
\* JSON value null, a role-only frame, an empty-string content) is a no-op:
\* the step that decodes it leaves messages and assistantSoFar unchanged,
\* removes the line from textBuffer and stays in the line loop.
C6_NoContentFrameIsNoOp ==
    [][(pc = "lines" /\ HasLine(textBuffer) /\ FrameNoContent(HeadLine(textBuffer)))
          => (/\ messages' = messages
              /\ assistantSoFar' = assistantSoFar
              /\ textBuffer' = AfterHead(textBuffer)
              /\ pc' = "lines")]_vars

\* C7: within one session all deltas land in a single assistant turn.  The
\* step that decodes a content frame leaves the turns up to the session's
\* user turn as they are and leaves exactly one turn after it: an assistant
\* turn with an ai- id (the id it had, if it was there) whose content is the
\* content it had before (empty if it was not there) followed by the delta.
C7_DeltasLandInOneTurn ==
    [][(pc = "lines" /\ HasLine(textBuffer) /\ FrameHasContent(HeadLine(textBuffer)))
          => LET delta == FrameDelta(HeadLine(textBuffer))
                 n == Len(messages)
                 opened == Len(SessionTurns) > 0
                 before == IF opened THEN messages[n].content ELSE <<>>
             IN  /\ Len(messages') = UserIndex + 1
                 /\ SubSeq(messages', 1, UserIndex) = SubSeq(messages, 1, UserIndex)
                 /\ Len(messages') = IF opened THEN n ELSE n + 1
                 /\ messages'[UserIndex + 1].role = "assistant"
                 /\ messages'[UserIndex + 1].id[1] = "ai-"
                 /\ opened => messages'[n].id = messages[n].id
                 /\ messages'[UserIndex + 1].content = before \o delta]_vars

\* Two deltas, a then b, have landed in the one assistant turn of the session.
C7_Witness ==
    /\ pc = "lines"
    /\ stream = DataA \o DataB
    /\ Len(messages) = 3
    /\ messages[3].id[1] = "ai-"
    /\ messages[3].content = <<"a", "b">>

\* C8: a content frame split across exactly two chunks inside its JSON body
\* has its delta appended exactly once when the second chunk has arrived:
\* when the chunk that completed it has been processed, the assistant
\* content is the content at the time of that read followed by the delta.
C8_FrameSplitAcrossTwoChunks ==
    LET joined == StripCR(SubSeq(atRead.tail \o atRead.chunk, 1,
                                 Len(atRead.tail) + Len(atRead.chunk) - 1))
    IN  (/\ pc = "reading"
         /\ atRead # NoRead
         /\ Len(atRead.tail) >= 3
         /\ FrameHasContent(joined))
            => assistantSoFar = atRead.soFar \o FrameDelta(joined)

\* C9: comment lines, blank lines and lines that are no data lines never
\* alter the transcript: the step that processes one leaves messages and
\* assistantSoFar unchanged and removes exactly that line and its terminator
\* from textBuffer.
C9_IgnoredLinesAreNoOps ==
    [][(/\ pc = "lines"
        /\ HasLine(textBuffer)
        /\ LET l == HeadLine(textBuffer)
           IN  FrameIsComment(l) \/ FrameIsBlank(l) \/ FrameIsOther(l))
          => (/\ messages' = messages
              /\ assistantSoFar' = assistantSoFar
              /\ textBuffer' = AfterHead(textBuffer))]_vars

\* A comment line that followed a delta has been processed and removed.
C9_Witness ==
    /\ pc = "lines"
    /\ stream = DataA \o Comment
    /\ rest = <<>>
    /\ textBuffer = <<>>
    /\ assistantSoFar = <<"a">>
    /\ messages[Len(messages)].content = <<"a">>

\* C10: a non-success response ends in Failed before any streaming: no
\* reader, no chunk read, no assistant turn opened by the session, and the
\* failure message is the body's error field when the body is JSON carrying
\* one, else it derives from the numeric status.
C10_NonSuccessFailsBeforeStreaming ==
    (pc = "Failed" /\ resp.ok = FALSE /\ resp.status # "")
        => /\ reader = FALSE
           /\ stream = <<>> /\ textBuffer = <<>>
           /\ isLoading = FALSE
           /\ \A i \in 1..Len(SessionTurns) : SessionTurns[i].id[1] # "ai-"
           /\ Len(SessionTurns) = 1
           /\ SessionTurns[1].content =
                 <<"Sorry, I encountered an error: ">>
                 \o (IF resp.body = "error" THEN <<"rate limited">>
                     ELSE <<"Error ", resp.status>>)
                 \o <<". Please try again.">>

\* C11: when reader.read() fails after k >= 0 deltas have been reconciled, the
\* session ends Failed with the partial transcript preserved: the failing step
\* appends exactly one error turn and changes no earlier turn, isLoading
\* becomes false, and the turns of the failed session are its assistant turn
\* (when a delta was reconciled) holding exactly the reconciled deltas,
\* followed by the one error turn.  A session that ends Completed holds no
\* error turn.
C11_ReadFailureKeepsPartial ==
    /\ [][(pc = "reading" /\ pc' = "Failed")
            => (/\ Len(messages') = Len(messages) + 1
                /\ SubSeq(messages', 1, Len(messages)) = messages
                /\ messages'[Len(messages')].id[1] = "err-"
                /\ messages'[Len(messages')].role = "assistant"
                /\ assistantSoFar' = assistantSoFar
                /\ isLoading' = FALSE)]_vars
    /\ []((pc = "Failed" /\ reader)
            => IF assistantSoFar = <<>>
               THEN /\ Len(SessionTurns) = 1
                    /\ SessionTurns[1].id[1] = "err-"
               ELSE /\ Len(SessionTurns) = 2
                    /\ SessionTurns[1].id[1] = "ai-"
                    /\ SessionTurns[1].content = assistantSoFar
                    /\ SessionTurns[2].id[1] = "err-")
    /\ []((pc = "Completed")
            => \A i \in 1..Len(SessionTurns) : SessionTurns[i].id[1] # "err-")

\* reader.read() failed after the delta a was reconciled: the assistant turn
\* holds a and the error turn follows it.
C11_Witness ==
    /\ pc = "Failed"
    /\ reader
    /\ assistantSoFar = <<"a">>
    /\ Len(SessionTurns) = 2
    /\ SessionTurns[1].content = <<"a">>
    /\ SessionTurns[2].id[1] = "err-"

\* C12: an external cancellation signal raised while handleSend is suspended
\* on reader.read() makes the pending read resolve to a cancellation outcome:
\* the next step of the session ends it Failed with the reason "cancelled",
\* the assistant content being exactly the deltas reconciled before.
C12_CancelFailsWithCancelled ==
    [][(cancelled /\ pc = "reading")
          => (/\ pc' = "Failed"
              /\ isLoading' = FALSE
              /\ assistantSoFar' = assistantSoFar
              /\ SubSeq(messages', 1, Len(messages)) = messages
              /\ \E i \in 1..Len(messages'[Len(messages')].content) :
                    messages'[Len(messages')].content[i] = "cancelled")]_vars

\* C13: at most one streaming session is active against the transcript.
\* isLoading is true exactly from the accepted send until the session is
\* Completed or Failed; a handleSend invoked while isLoading is true changes
\* nothing of the chat (no user turn, no request, no chunk read); and while a
\* session is active no other session starts, no user turn is appended and
\* no turn up to the session's own user turn changes, so no delta is written
\* into an assistant turn another session opened.
C13_OneActiveSession ==
    /\ [](isLoading <=> pc \in {"fetch", "reading", "lines"})
    /\ [][(isLoading /\ sendsLeft' # sendsLeft)
            => UNCHANGED <<messages, isLoading, pc, assistantSoFar, textBuffer,
                           rest, now, resp, reader, stream>>]_vars
    /\ [][isLoading
            => (/\ now' = now
                /\ Len(messages') >= UserIndex
                /\ SubSeq(messages', 1, UserIndex) = SubSeq(messages, 1, UserIndex)
                /\ \A i \in (UserIndex + 1)..Len(messages') :
                      messages'[i].role # "user")]_vars

\* A send was ignored while a session was streaming, and the deltas of the
\* two sessions of the run sit in two assistant turns.
C13_Witness ==
    /\ now = 2
    /\ sendsLeft < MaxSends
    /\ Len(messages) = 5
    /\ messages[3].id = AiId(1)
    /\ messages[3].content = <<"a">>
    /\ messages[5].id = AiId(2)
    /\ messages[5].content = <<"b">>

\* C14: no reconciliation crosses session boundaries.  Over any sequence of
\* sends the transcript never shrinks; a step changes at most one existing
\* turn, which is the last turn, lies after the session's user turn, is an
\* `ai-` turn and keeps its id and role; and the step that decodes the first
\* delta of a session appends a new `ai-` turn holding that delta, whatever
\* turn the previous session left last.
C14_NoCrossSessionReconciliation ==
    /\ [][/\ Len(messages') >= Len(messages)
          /\ \A i \in 1..Len(messages) :
                (messages'[i] # messages[i])
                   => (/\ i = Len(messages)
                       /\ i > UserIndex
                       /\ messages[i].id[1] = "ai-"
                       /\ messages'[i].id = messages[i].id
                       /\ messages'[i].role = messages[i].role)]_vars
    /\ [][(/\ pc = "lines"
           /\ HasLine(textBuffer)
           /\ FrameHasContent(HeadLine(textBuffer))
           /\ assistantSoFar = <<>>
           /\ textBuffer' # textBuffer)
            => (/\ Len(messages') = Len(messages) + 1
                /\ SubSeq(messages', 1, Len(messages)) = messages
                /\ messages'[Len(messages')].id[1] = "ai-"
                /\ messages'[Len(messages')].role = "assistant"
                /\ messages'[Len(messages')].content
                      = FrameDelta(HeadLine(textBuffer)))]_vars

\* The third session opened its own assistant turn after a session that
\* ended with an `err-` turn, itself after a session that left an `ai-` turn.
C14_Witness ==
    /\ now = 3
    /\ Len(messages) = 7
    /\ messages[3].id = AiId(1)
    /\ messages[3].content = <<"a">>
    /\ messages[5].id = ErrId(2)
    /\ messages[7].id = AiId(3)
    /\ messages[7].content = <<"b">>

\* A data line whose payload follows `data:` without a space.
FrameIsDataNoSpace(l) == Len(l) >= 2 /\ l[1] = "data:" /\ l[2] # " "

\* The same line written with the space after `data:`.
WithSpace(l) == <<"data:", " ">> \o SubSeq(l, 2, Len(l))

\* C15: the data prefix is accepted with or without the space.  The step that
\* processes a line `data:` immediately followed by a content payload has the
\* effect of the same line written `data: `: the payload's delta is appended
\* to the assistant content and lands in the session's assistant turn.
C15_PrefixWithoutSpaceIsData ==
    [][(/\ pc = "lines"
        /\ HasLine(textBuffer)
        /\ FrameIsDataNoSpace(HeadLine(textBuffer))
        /\ FrameHasContent(WithSpace(HeadLine(textBuffer))))
          => LET delta == FrameDelta(WithSpace(HeadLine(textBuffer)))
             IN  /\ assistantSoFar' = assistantSoFar \o delta
                 /\ messages'[Len(messages')].content = assistantSoFar \o delta
                 /\ textBuffer' = AfterHead(textBuffer)]_vars

\* C16: buffer invariant at every suspension point.  Each time handleSend is
\* about to await reader.read(), textBuffer holds no line terminator.
C16_NoTerminatorAtRead ==
    (pc = "reading") => ~HasLine(textBuffer)

\* C17: termination of the driver.  Each iteration of the line loop removes
\* a line from textBuffer or leaves the loop, so the loop started by a chunk
\* is left after finitely many steps; and when the source delivers every
\* chunk and then ends the stream, a session that is streaming reaches
\* Completed with isLoading false and no error turn, whatever is left in
\* textBuffer.
C17_DriverTerminates ==
    /\ [][(pc = "lines")
            => (\/ pc' = "reading"
                \/ /\ pc' = "lines"
                   /\ Len(textBuffer') < Len(textBuffer)
                   /\ textBuffer' = AfterHead(textBuffer))]_vars
    /\ (pc = "lines") ~> (pc = "reading")
    /\ (pc \in {"reading", "lines"})
          ~> (/\ pc = "Completed"
              /\ ~isLoading
              /\ \A i \in 1..Len(SessionTurns) : SessionTurns[i].id[1] # "err-")

\* The stream ended with a never-repaired line left in textBuffer and the
\* session is Completed with the delta that preceded it.
C17_Witness ==
    /\ pc = "Completed"
    /\ ~isLoading
    /\ stream = DataA \o SplitHead
    /\ textBuffer = SplitHead
    /\ assistantSoFar = <<"a">>
    /\ Len(SessionTurns) = 1

====
